---- MODULE Spec2Model ----
(***************************************************************************)
(* Model of the P-chain transaction builder (wallet/chain/p builder):      *)
(* the owner matcher, the two-pass UTXO spend planner and the transaction  *)
(* assemblers built on it.  Every call is modelled step by step: one       *)
(* action per loop iteration of the code, so that the position of a scan   *)
(* is part of the state.                                                   *)
(***************************************************************************)
EXTENDS Integers, Sequences, FiniteSets, TLC

VARIABLES
    addrs,            \* builder.addrs: the controlled-address set
    ctx,              \* backend Context: the fees
    pc,               \* position of the running call
    call,             \* the running call: assembler, arguments, options
    req,              \* the request handed to spend: [burn, stake]
    srcUtxos,         \* NewImportTx: backend.UTXOs(sourceChainID)
    importedInputs,   \* NewImportTx: importedInputs
    importedAmount,   \* NewImportTx: importedAmount
    utxos,            \* spend: backend.UTXOs(PlatformChainID)
    i,                \* index of the UTXO the running loop visits next
    changeOwner,      \* spend: the resolved change owner (<<>> before)
    amountsToBurn,    \* spend: remaining burn per asset
    amountsToStake,   \* spend: remaining stake per asset
    inputs,           \* spend: inputs
    changeOutputs,    \* spend: changeOutputs
    stakeOutputs,     \* spend: stakeOutputs
    err,              \* error returned by the call ("" while none)
    errAsset,         \* the asset the errInsufficientFunds message of spend names
    subnetTx,         \* authorizeSubnet: what backend.GetTx answered (<<>> before)
    firstResult,      \* what an earlier, identical invocation returned (<<>> if none)
    tx,               \* the returned transaction (<<>> while none)
    matched           \* what a call of match returned (<<>> while none)

vars == <<addrs, ctx, pc, call, req, srcUtxos, importedInputs, importedAmount,
          utxos, i, changeOwner, amountsToBurn, amountsToStake, inputs,
          changeOutputs, stakeOutputs, err, errAsset, subnetTx,
          firstResult, tx, matched>>

-----------------------------------------------------------------------------
(* Bounds of the model *)

\* longest UTXO list a backend answers with
MaxUTXOs == 2

\* largest validator weight requested
MaxWeight == 3

\* stand-in for math.MaxUint64: amounts are naturals up to this value
MaxUint64 == 1023

-----------------------------------------------------------------------------
(* Identifiers *)

DJTXAssetID == "DJTX"
OtherAssetID == "X"
AssetIDs == {DJTXAssetID, OtherAssetID}

AddrUniverse == {"A", "B", "C"}

\* big-endian value of an identifier, as the codec writes it
IDBytes(id) ==
    CASE id = "A" -> 1
      [] id = "B" -> 2
      [] id = "C" -> 3
      [] id = OtherAssetID -> 4
      [] id = DJTXAssetID -> 5

Min64(a, b) == IF a < b THEN a ELSE b

\* math.Add64: the sum, or an overflow error
Add64Overflows(a, b) == a + b > MaxUint64

-----------------------------------------------------------------------------
(* Values *)

OutputOwners(threshold, as, locktime) ==
    [threshold |-> threshold, addrs |-> as, locktime |-> locktime]

TransferOutputT == "secp256k1fx.TransferOutput"
StakeableLockOutT == "platformvm.StakeableLockOut"
TransferInputT == "secp256k1fx.TransferInput"
StakeableLockInT == "platformvm.StakeableLockIn"

TransferOutput(amt, owners) ==
    [type |-> TransferOutputT, amt |-> amt, owners |-> owners]

StakeableLockOut(locktime, out) ==
    [type |-> StakeableLockOutT, locktime |-> locktime, out |-> out]

\* an output of a type the builder does not know
OtherOutput == [type |-> "other"]

TransferInput(amt, sigIndices) ==
    [type |-> TransferInputT, amt |-> amt, sigIndices |-> sigIndices]

StakeableLockIn(locktime, in) ==
    [type |-> StakeableLockInT, locktime |-> locktime, in |-> in]

UTXO(txID, outputIndex, assetID, out) ==
    [utxoID |-> <<txID, outputIndex>>, asset |-> assetID, out |-> out]

TransferableInput(utxo, in) ==
    [utxoID |-> utxo.utxoID, asset |-> utxo.asset, in |-> in]

TransferableOutput(assetID, out) == [asset |-> assetID, out |-> out]

\* Amount() of an input or an output
Amount(x) ==
    IF x.type = StakeableLockInT THEN x.in.amt
    ELSE IF x.type = StakeableLockOutT THEN x.out.amt
    ELSE x.amt

-----------------------------------------------------------------------------
(* builder.match *)

\* the loop of match, from position k (counted from 0) with sigs collected
RECURSIVE matchLoop(_, _, _, _)
matchLoop(b, owners, k, sigs) ==
    IF k < Len(owners.addrs) /\ Len(sigs) < owners.threshold
    THEN matchLoop(b, owners, k + 1,
                   IF owners.addrs[k + 1] \in b THEN Append(sigs, k) ELSE sigs)
    ELSE sigs

\* match with the lock time of the owners not looked at
matchIgnoringLocktime(b, owners, minIssuanceTime) ==
    LET sigs == matchLoop(b, owners, 0, <<>>)
    IN [sigs |-> sigs, ok |-> Len(sigs) = owners.threshold]

\* match attempts to match a list of addresses up to the provided threshold
match(b, owners, minIssuanceTime) ==
    IF owners.locktime > minIssuanceTime
    THEN [sigs |-> <<>>, ok |-> FALSE]
    ELSE LET sigs == matchLoop(b, owners, 0, <<>>)
         IN [sigs |-> sigs, ok |-> Len(sigs) = owners.threshold]

-----------------------------------------------------------------------------
(* Canonical orders *)

\* bytewise order of two serializations, field by field
RECURSIVE BytesLess(_, _)
BytesLess(x, y) ==
    IF x = <<>> THEN y # <<>>
    ELSE IF y = <<>> THEN FALSE
    ELSE IF Head(x) # Head(y) THEN Head(x) < Head(y)
    ELSE BytesLess(Tail(x), Tail(y))

\* place the pair p = <<key, value>> into the pairs sorted by key
RECURSIVE InsertSorted(_, _)
InsertSorted(sorted, p) ==
    IF sorted = <<>> THEN <<p>>
    ELSE IF BytesLess(p[1], Head(sorted)[1]) THEN <<p>> \o sorted
    ELSE <<Head(sorted)>> \o InsertSorted(Tail(sorted), p)

RECURSIVE SortPairs(_)
SortPairs(ps) ==
    IF ps = <<>> THEN <<>>
    ELSE InsertSorted(SortPairs(Tail(ps)), Head(ps))

SortByKey(keys, values) ==
    LET sorted == SortPairs([k \in 1..Len(values) |-> <<keys[k], values[k]>>])
    IN [k \in 1..Len(sorted) |-> sorted[k][2]]

\* the codec's bytes of an output payload: type id, then the fields in order
RECURSIVE MarshalOut(_)
MarshalOut(o) ==
    IF o.type = StakeableLockOutT
    THEN <<22, o.locktime>> \o MarshalOut(o.out)
    ELSE IF o.type = TransferOutputT
    THEN <<7, o.amt, o.owners.locktime, o.owners.threshold, Len(o.owners.addrs)>>
         \o [k \in 1..Len(o.owners.addrs) |-> IDBytes(o.owners.addrs[k])]
    ELSE <<0>>

Marshal(output) == <<IDBytes(output.asset)>> \o MarshalOut(output.out)

\* djtx.SortTransferableInputs: by UTXO id (tx id, then output index)
SortTransferableInputs(ins) ==
    SortByKey([k \in 1..Len(ins) |-> ins[k].utxoID], ins)

\* djtx.SortTransferableOutputs: by the bytes of the serialized output
SortTransferableOutputs(outs) ==
    SortByKey([k \in 1..Len(outs) |-> Marshal(outs[k])], outs)

-----------------------------------------------------------------------------
(* Options *)

\* common.Options: the issuance-time floor and the change-owner override
\* (<<>> when the caller gave none)
Options(minIssuanceTime, changeOwnerOpt) ==
    [minIssuanceTime |-> minIssuanceTime, changeOwner |-> changeOwnerOpt]

\* Options.ChangeOwner(defaultOwner)
ChangeOwner(options, defaultOwner) ==
    IF options.changeOwner = <<>> THEN defaultOwner ELSE options.changeOwner[1]

\* ids.ShortSet.Peek: a fixed pick from the set, one and the same address on
\* every call; no address for the empty set
Peek(set) == IF set = {} THEN {} ELSE {CHOOSE a \in set : TRUE}

-----------------------------------------------------------------------------
(* spend: what one iteration of each pass does with the UTXO it visits *)

Skip == [kind |-> "skip", inputs |-> <<>>, stake |-> <<>>, change |-> <<>>,
         burned |-> 0, staked |-> 0]

\* an output of an unknown type passed over like any other
UnknownSkipped == Skip

Unknown == [Skip EXCEPT !.kind = "errUnknownOutputType"]

\* the boundary lock time = min issuance time taken as still locked
StillLockedAtBoundary(locktime, minIssuanceTime) == ~(minIssuanceTime > locktime)

\* pass 1: "this output isn't locked" test of a stake-locked output
StillLocked(locktime, minIssuanceTime) == ~(minIssuanceTime >= locktime)

\* the lock of a stake-locked output not looked at in pass 2
CurrentlyLockedNever(locktime, minIssuanceTime) == FALSE

\* pass 2: "this output is currently locked" test
CurrentlyLocked(locktime, minIssuanceTime) == locktime > minIssuanceTime

\* pass 1: the value of a consumed locked UTXO that goes to the stake
LockedAmountToStake(remainingAmountToStake, amt) ==
    Min64(remainingAmountToStake, amt)

\* the locked UTXOs left alone, whatever the stake wanted
Pass1VisitSkipped(b, utxo, remainingAmountToStake, minIssuanceTime) == Skip

\* pass 1, lines 492-572
Pass1Visit(b, utxo, remainingAmountToStake, minIssuanceTime) ==
    IF remainingAmountToStake = 0 THEN Skip
    ELSE IF utxo.out.type # StakeableLockOutT THEN Skip
    ELSE IF ~StillLocked(utxo.out.locktime, minIssuanceTime) THEN Skip
    ELSE IF utxo.out.out.type # TransferOutputT THEN Unknown
    ELSE
    LET lockedOut == utxo.out
        out == lockedOut.out
        m == match(b, out.owners, minIssuanceTime)
        amountToStake == LockedAmountToStake(remainingAmountToStake, out.amt)
        remainingAmount == out.amt - amountToStake
    IN IF ~m.ok THEN Skip
       ELSE [kind |-> "spend",
             inputs |-> <<TransferableInput(utxo,
                            StakeableLockIn(lockedOut.locktime,
                                            TransferInput(out.amt, m.sigs)))>>,
             stake |-> <<TransferableOutput(utxo.asset,
                            StakeableLockOut(lockedOut.locktime,
                                TransferOutput(amountToStake, out.owners)))>>,
             change |-> IF remainingAmount > 0
                        THEN <<TransferableOutput(utxo.asset,
                                  StakeableLockOut(lockedOut.locktime,
                                      TransferOutput(remainingAmount, out.owners)))>>
                        ELSE <<>>,
             burned |-> 0,
             staked |-> amountToStake]

\* the minimum with the amount available forgotten
AmountToBurnUnbounded(remainingAmountToBurn, amt) == remainingAmountToBurn

\* pass 2: the value of a consumed UTXO that is burned
AmountToBurn(remainingAmountToBurn, amt) == Min64(remainingAmountToBurn, amt)

\* pass 2: the value of a consumed UTXO that goes to the stake
\* nothing of an unlocked UTXO put to the stake
AmountToStakeNone(remainingAmountToStake, amountAvalibleToStake) == 0

AmountToStake(remainingAmountToStake, amountAvalibleToStake) ==
    Min64(remainingAmountToStake, amountAvalibleToStake)

\* the outputs of pass 2 handed back to the owners of the consumed UTXO
UnlockedOutputOwnersOfUTXO(out, owner) == out.owners

\* pass 2: the owners of the outputs made from a consumed UTXO
UnlockedOutputOwners(out, owner) == owner

\* pass 2, lines 575-652
Pass2Visit(b, utxo, remainingAmountToStake, remainingAmountToBurn, minIssuanceTime, owner) ==
    IF remainingAmountToStake = 0 /\ remainingAmountToBurn = 0 THEN Skip
    ELSE IF /\ utxo.out.type = StakeableLockOutT
            /\ CurrentlyLocked(utxo.out.locktime, minIssuanceTime) THEN Skip
    ELSE
    LET outIntf == IF utxo.out.type = StakeableLockOutT
                   THEN utxo.out.out ELSE utxo.out
    IN IF outIntf.type # TransferOutputT THEN Unknown
    ELSE
    LET out == outIntf
        m == match(b, out.owners, minIssuanceTime)
        amountToBurn == AmountToBurn(remainingAmountToBurn, out.amt)
        amountAvalibleToStake == out.amt - amountToBurn
        amountToStake == AmountToStake(remainingAmountToStake,
                                       amountAvalibleToStake)
        remainingAmount == amountAvalibleToStake - amountToStake
        outOwners == UnlockedOutputOwners(out, owner)
    IN IF ~m.ok THEN Skip
       ELSE [kind |-> "spend",
             inputs |-> <<TransferableInput(utxo,
                            TransferInput(out.amt, m.sigs))>>,
             stake |-> IF amountToStake > 0
                       THEN <<TransferableOutput(utxo.asset,
                                 TransferOutput(amountToStake, outOwners))>>
                       ELSE <<>>,
             change |-> IF remainingAmount > 0
                        THEN <<TransferableOutput(utxo.asset,
                                  TransferOutput(remainingAmount, outOwners))>>
                        ELSE <<>>,
             burned |-> amountToBurn,
             staked |-> amountToStake]

\* the check of the burn map forgotten
UnmetStakeOnly(remainingStake, remainingBurn) ==
    {a \in AssetIDs : remainingStake[a] # 0}

\* the assets whose requirement is unmet after both passes, lines 654-673
Unmet(remainingStake, remainingBurn) ==
    {a \in AssetIDs : remainingStake[a] # 0 \/ remainingBurn[a] # 0}

\* the burn requirements looked at before the stake requirements
ReportedBurnFirst(remainingStake, remainingBurn) ==
    IF \E a \in AssetIDs : remainingBurn[a] # 0
    THEN {a \in AssetIDs : remainingBurn[a] # 0}
    ELSE {a \in AssetIDs : remainingStake[a] # 0}

\* the assets the returned error may name: the range over amountsToStake returns
\* at the first unmet asset it meets, then the range over amountsToBurn does; the
\* order in which a range meets the keys of a map is not fixed
Reported(remainingStake, remainingBurn) ==
    IF \E a \in AssetIDs : remainingStake[a] # 0
    THEN {a \in AssetIDs : remainingStake[a] # 0}
    ELSE {a \in AssetIDs : remainingBurn[a] # 0}

-----------------------------------------------------------------------------
(* The inputs the calls are given *)

\* a burn or stake map: d of the native asset, x of the other asset
AmountsOf(d, x) == [a \in AssetIDs |-> IF a = DJTXAssetID THEN d ELSE x]

NoAmounts == AmountsOf(0, 0)

Request(burn, stake) == [burn |-> burn, stake |-> stake]

Context(baseTxFee, createSubnetTxFee) ==
    [baseTxFee |-> baseTxFee, createSubnetTxFee |-> createSubnetTxFee]

OwnA == OutputOwners(1, <<"A">>, 0)
OwnB == OutputOwners(1, <<"B">>, 0)
OwnC == OutputOwners(1, <<"C">>, 0)
OwnBorA == OutputOwners(1, <<"B", "A">>, 0)
OwnAandB == OutputOwners(2, <<"A", "B">>, 0)
OwnAnyone == OutputOwners(0, <<>>, 0)
OwnALater == OutputOwners(1, <<"A">>, 2)

\* the sets of addresses a builder is constructed with
ControlledSets == SUBSET {"A", "B"}

\* the UTXOs the P-chain backend may hold
PChainUTXOs ==
    { UTXO(3, 0, DJTXAssetID, TransferOutput(1, OwnA)),
      UTXO(1, 1, DJTXAssetID, TransferOutput(2, OwnA)),
      UTXO(2, 0, DJTXAssetID, TransferOutput(3, OwnAandB)),
      UTXO(0, 1, DJTXAssetID, TransferOutput(1, OwnAnyone)),
      UTXO(2, 1, DJTXAssetID, TransferOutput(2, OwnALater)),
      UTXO(1, 0, DJTXAssetID, StakeableLockOut(2, TransferOutput(2, OwnA))),
      UTXO(3, 1, DJTXAssetID, StakeableLockOut(2, TransferOutput(1, OwnBorA))),
      UTXO(0, 0, DJTXAssetID, StakeableLockOut(1, TransferOutput(1, OwnA))),
      UTXO(4, 0, OtherAssetID, TransferOutput(2, OwnA)),
      UTXO(5, 0, DJTXAssetID, OtherOutput),
      UTXO(5, 1, DJTXAssetID, StakeableLockOut(2, OtherOutput)) }

\* the UTXOs the source chain's backend may hold
SourceUTXOs ==
    { UTXO(6, 0, DJTXAssetID, TransferOutput(1, OwnA)),
      UTXO(6, 1, DJTXAssetID, TransferOutput(2, OwnA)),
      UTXO(7, 0, DJTXAssetID, TransferOutput(3, OwnAnyone)),
      UTXO(8, 1, DJTXAssetID, TransferOutput(1, OwnBorA)),
      UTXO(9, 0, DJTXAssetID, TransferOutput(MaxUint64, OwnA)),
      UTXO(7, 1, OtherAssetID, TransferOutput(2, OwnA)),
      UTXO(8, 0, DJTXAssetID, StakeableLockOut(1, TransferOutput(2, OwnA))) }

\* the lists of at most n distinct UTXOs of a set, in every order
UTXOLists(set, n) ==
    UNION { { l \in [1..k -> set] : \A x, y \in 1..k : l[x] = l[y] => x = y }
            : k \in 0..n }

\* the backend's answers to UTXOs: a list, or <<"error">>
BackendError == "backend error"

OptionChoices ==
    { Options(1, <<>>), Options(2, <<>>), Options(1, <<OwnB>>) }

\* the requests spend is given directly
SpendRequests ==
    { Request(AmountsOf(bd, bx), AmountsOf(sd, 0)) :
        bd \in 0..2, bx \in 0..1, sd \in 0..2 }

ExportedOutput(assetID, amt) ==
    TransferableOutput(assetID, TransferOutput(amt, OwnC))

ExportedOutputChoices ==
    { <<>>,
      <<ExportedOutput(DJTXAssetID, 1)>>,
      <<ExportedOutput(OtherAssetID, 1)>>,
      <<ExportedOutput(OtherAssetID, 2), ExportedOutput(DJTXAssetID, 1)>>,
      <<ExportedOutput(OtherAssetID, 1), ExportedOutput(OtherAssetID, 1)>>,
      <<ExportedOutput(DJTXAssetID, MaxUint64)>> }

ToChoices == {OwnA, OwnC}

\* everything a specification draws the calls' inputs from
World(controlled, contexts, pchain, source, options, requests, exported, tos) ==
    [controlled |-> controlled, contexts |-> contexts, pchain |-> pchain,
     source |-> source, options |-> options, requests |-> requests,
     exported |-> exported, tos |-> tos]

MainWorld ==
    World(ControlledSets, {Context(2, 1)},
          UTXOLists(PChainUTXOs, MaxUTXOs), UTXOLists(SourceUTXOs, MaxUTXOs),
          OptionChoices, SpendRequests, ExportedOutputChoices, ToChoices)

-----------------------------------------------------------------------------
(* The calls *)

NoCall == [op |-> "", options |-> Options(0, <<>>), weight |-> 0,
           outputs |-> <<>>, to |-> <<>>, owners |-> <<>>]

InitIn(w) ==
    /\ addrs \in w.controlled
    /\ ctx \in w.contexts
    /\ pc = "idle"
    /\ call = NoCall
    /\ req = Request(NoAmounts, NoAmounts)
    /\ srcUtxos = <<>>
    /\ importedInputs = <<>>
    /\ importedAmount = 0
    /\ utxos = <<>>
    /\ i = 0
    /\ changeOwner = <<>>
    /\ amountsToBurn = NoAmounts
    /\ amountsToStake = NoAmounts
    /\ inputs = <<>>
    /\ changeOutputs = <<>>
    /\ stakeOutputs = <<>>
    /\ err = ""
    /\ errAsset = ""
    /\ subnetTx = <<>>
    /\ firstResult = <<>>
    /\ tx = <<>>
    /\ matched = <<>>

spendVars == <<utxos, changeOwner, amountsToBurn, amountsToStake, inputs,
               changeOutputs, stakeOutputs>>
importVars == <<srcUtxos, importedInputs, importedAmount>>

\* the call enters spend(toBurn, toStake, ops)
CallSpend(c, toBurn, toStake) ==
    /\ call' = c
    /\ req' = Request(toBurn, toStake)
    /\ amountsToBurn' = toBurn
    /\ amountsToStake' = toStake
    /\ pc' = "spend"
    /\ UNCHANGED <<addrs, ctx, firstResult, subnetTx, errAsset, matched, utxos, i, changeOwner, inputs, changeOutputs,
                   stakeOutputs, err, tx>>

\* the call returns err and no transaction
Return(e) ==
    /\ pc' = "done"
    /\ err' = e
    /\ tx' = <<>>

\* spend called with a request of its own
Spend(w) ==
    /\ pc = "idle"
    /\ \E ops \in w.options, r \in w.requests :
         CallSpend([NoCall EXCEPT !.op = "spend", !.options = ops],
                   r.burn, r.stake)
    /\ UNCHANGED importVars

\* lines 147-158
NewAddValidatorTx(w) ==
    /\ pc = "idle"
    /\ \E ops \in w.options, wght \in 1..MaxWeight :
         CallSpend([NoCall EXCEPT !.op = "NewAddValidatorTx",
                                  !.options = ops, !.weight = wght],
                   NoAmounts, AmountsOf(wght, 0))
    /\ UNCHANGED importVars

\* lines 211-221
NewAddDelegatorTx(w) ==
    /\ pc = "idle"
    /\ \E ops \in w.options, wght \in 1..MaxWeight :
         CallSpend([NoCall EXCEPT !.op = "NewAddDelegatorTx",
                                  !.options = ops, !.weight = wght],
                   NoAmounts, AmountsOf(wght, 0))
    /\ UNCHANGED importVars

\* lines 282-291
NewCreateSubnetTx(w) ==
    /\ pc = "idle"
    /\ \E ops \in w.options :
         CallSpend([NoCall EXCEPT !.op = "NewCreateSubnetTx", !.options = ops],
                   AmountsOf(ctx.createSubnetTxFee, 0), NoAmounts)
    /\ UNCHANGED importVars

\* the exported amounts left out of the burn
ExportBurnFeeOnly(toBurn, outputs) == <<toBurn>>

\* NewExportTx's loop over the outputs, lines 425-432: the burn map, or <<>>
\* when an addition overflows
RECURSIVE ExportBurn(_, _)
ExportBurn(toBurn, outputs) ==
    IF outputs = <<>> THEN <<toBurn>>
    ELSE LET out == Head(outputs)
             assetID == out.asset
         IN IF Add64Overflows(toBurn[assetID], Amount(out.out)) THEN <<>>
            ELSE ExportBurn([toBurn EXCEPT ![assetID] = @ + Amount(out.out)],
                            Tail(outputs))

\* lines 417-436
NewExportTx(w) ==
    /\ pc = "idle"
    /\ \E ops \in w.options, outputs \in w.exported :
         LET c == [NoCall EXCEPT !.op = "NewExportTx", !.options = ops,
                                 !.outputs = outputs]
             toBurn == ExportBurn(AmountsOf(ctx.baseTxFee, 0), outputs)
         IN IF toBurn = <<>>
            THEN /\ Return("overflow")
                 /\ call' = c
                 /\ UNCHANGED <<addrs, ctx, firstResult, subnetTx, errAsset, matched, req, i, spendVars>>
            ELSE CallSpend(c, toBurn[1], NoAmounts)
    /\ UNCHANGED importVars

-----------------------------------------------------------------------------
(* spend, lines 466-679 *)

\* where the scan goes after position k of pass p over n UTXOs
After(p, k, n) ==
    IF k < n THEN <<p, k + 1>>
    ELSE IF p = "pass1" /\ n > 0 THEN <<"pass2", 1>>
    ELSE <<"finish", 0>>

\* spend returns (nil, nil, nil, e), and so does the assembler that called it
SpendFails(e) ==
    /\ Return(e)
    /\ inputs' = <<>>
    /\ changeOutputs' = <<>>
    /\ stakeOutputs' = <<>>

\* the assemblers that go on to authorizeSubnet once spend has returned
SubnetCalls == {"NewAddSubnetValidatorTx", "NewCreateChainTx"}

\* the transaction an assembler builds from what spend returned
BuildTx(c, ins, outs, stake, imported) ==
    [ins |-> ins,
     outs |-> outs,
     stake |-> IF c.op \in {"spend", "NewAddValidatorTx", "NewAddDelegatorTx"}
               THEN stake ELSE <<>>,
     importedInputs |-> imported,
     exportedOutputs |-> IF c.op = "NewExportTx"
                         THEN SortTransferableOutputs(c.outputs) ELSE <<>>,
     subnetAuth |-> <<>>]

\* lines 476-489: the UTXOs are fetched and the change owner is resolved
SpendEnter(w) ==
    /\ pc = "spend"
    /\ \/ /\ SpendFails(BackendError)
          /\ UNCHANGED <<utxos, i, changeOwner>>
       \/ \E resp \in w.pchain :
            /\ utxos' = resp
            /\ IF Peek(addrs) = {}
               THEN /\ SpendFails("errNoChangeAddress")
                    /\ UNCHANGED <<i, changeOwner>>
               ELSE \E addr \in Peek(addrs) :
                      /\ changeOwner' =
                           <<ChangeOwner(call.options,
                                         OutputOwners(1, <<addr>>, 0))>>
                      /\ pc' = After("pass1", 0, Len(resp))[1]
                      /\ i' = After("pass1", 0, Len(resp))[2]
                      /\ UNCHANGED <<inputs, changeOutputs, stakeOutputs,
                                     err, tx>>
    /\ UNCHANGED <<addrs, ctx, firstResult, subnetTx, errAsset, matched, call, req, amountsToBurn, amountsToStake,
                   importVars>>

\* one iteration of a pass: v is what Pass1Visit or Pass2Visit gives
Visit(p, assetID, v) ==
    /\ IF v.kind = "errUnknownOutputType"
       THEN /\ SpendFails(v.kind)
            /\ UNCHANGED <<i, amountsToBurn, amountsToStake>>
       ELSE /\ inputs' = inputs \o v.inputs
            /\ stakeOutputs' = stakeOutputs \o v.stake
            /\ changeOutputs' = changeOutputs \o v.change
            /\ amountsToBurn' = [amountsToBurn EXCEPT ![assetID] = @ - v.burned]
            /\ amountsToStake' = [amountsToStake EXCEPT ![assetID] = @ - v.staked]
            /\ pc' = After(p, i, Len(utxos))[1]
            /\ i' = After(p, i, Len(utxos))[2]
            /\ UNCHANGED <<err, tx>>
    /\ UNCHANGED <<addrs, ctx, firstResult, subnetTx, errAsset, matched, call, req, utxos, changeOwner, importVars>>

\* lines 491-572: iterate over the locked UTXOs
Pass1Step ==
    /\ pc = "pass1"
    /\ LET utxo == utxos[i]
       IN Visit("pass1", utxo.asset,
                Pass1Visit(addrs, utxo, amountsToStake[utxo.asset],
                           call.options.minIssuanceTime))

\* lines 574-652: iterate over the unlocked UTXOs
Pass2Step ==
    /\ pc = "pass2"
    /\ LET utxo == utxos[i]
       IN Visit("pass2", utxo.asset,
                Pass2Visit(addrs, utxo, amountsToStake[utxo.asset],
                           amountsToBurn[utxo.asset],
                           call.options.minIssuanceTime, changeOwner[1]))

\* the inputs returned in the order the loops appended them
ReturnedInputsUnsorted(ins) == ins

\* line 675: the inputs as spend returns them
ReturnedInputs(ins) == SortTransferableInputs(ins)

\* lines 654-678, and the assembler's return
SpendFinish ==
    /\ pc = "finish"
    /\ IF Unmet(amountsToStake, amountsToBurn) # {}
       THEN /\ SpendFails("errInsufficientFunds")
            /\ errAsset' \in Reported(amountsToStake, amountsToBurn)
       ELSE /\ inputs' = ReturnedInputs(inputs)
            /\ changeOutputs' = SortTransferableOutputs(changeOutputs)
            /\ stakeOutputs' = SortTransferableOutputs(stakeOutputs)
            /\ IF call.op \in SubnetCalls
               THEN pc' = "authorize" /\ tx' = tx
               ELSE /\ tx' = <<BuildTx(call, inputs', changeOutputs',
                                       stakeOutputs', importedInputs)>>
                    /\ pc' = "done"
            /\ err' = ""
            /\ UNCHANGED errAsset
    /\ UNCHANGED <<addrs, ctx, firstResult, subnetTx, matched, call, req, utxos, i, changeOwner,
                   amountsToBurn, amountsToStake, importVars>>

-----------------------------------------------------------------------------
(* NewImportTx, lines 309-415 *)

\* lines 314-327: the source chain's UTXOs are fetched
NewImportTx(w) ==
    /\ pc = "idle"
    /\ \E ops \in w.options, to \in w.tos :
         /\ call' = [NoCall EXCEPT !.op = "NewImportTx", !.options = ops,
                                   !.to = <<to>>]
         /\ \/ /\ Return(BackendError)
               /\ UNCHANGED <<srcUtxos, i>>
            \/ \E resp \in w.source :
                 /\ srcUtxos' = resp
                 /\ pc' = IF Len(resp) > 0 THEN "import" ELSE "imported"
                 /\ i' = IF Len(resp) > 0 THEN 1 ELSE 0
                 /\ UNCHANGED <<err, tx>>
    /\ UNCHANGED <<addrs, ctx, firstResult, subnetTx, errAsset, matched, req, importedInputs, importedAmount, utxos,
                   changeOwner, amountsToBurn, amountsToStake, inputs,
                   changeOutputs, stakeOutputs>>

\* whether the scan of the source chain's UTXOs takes this one
Importable(b, utxo, minIssuanceTime) ==
    /\ utxo.asset = DJTXAssetID
    /\ utxo.out.type = TransferOutputT
    /\ match(b, utxo.out.owners, minIssuanceTime).ok

\* lines 329-361: one iteration over the source chain's UTXOs
ImportStep ==
    /\ pc = "import"
    /\ LET utxo == srcUtxos[i]
           minIssuanceTime == call.options.minIssuanceTime
       IN IF ~Importable(addrs, utxo, minIssuanceTime)
          THEN /\ pc' = IF i < Len(srcUtxos) THEN "import" ELSE "imported"
               /\ i' = IF i < Len(srcUtxos) THEN i + 1 ELSE 0
               /\ UNCHANGED <<importedInputs, importedAmount, err, tx>>
          ELSE IF Add64Overflows(importedAmount, utxo.out.amt)
          THEN /\ Return("overflow")
               /\ UNCHANGED <<i, importedInputs, importedAmount>>
          ELSE /\ importedInputs' =
                    Append(importedInputs,
                           TransferableInput(utxo,
                               TransferInput(utxo.out.amt,
                                   match(addrs, utxo.out.owners,
                                         minIssuanceTime).sigs)))
               /\ importedAmount' = importedAmount + utxo.out.amt
               /\ pc' = IF i < Len(srcUtxos) THEN "import" ELSE "imported"
               /\ i' = IF i < Len(srcUtxos) THEN i + 1 ELSE 0
               /\ UNCHANGED <<err, tx>>
    /\ UNCHANGED <<addrs, ctx, firstResult, subnetTx, errAsset, matched, call, req, srcUtxos, spendVars>>

\* the owners of the output that carries the imported value left after the fee
ImportedOutputOwners(to, owner) == owner

\* an imported amount equal to the fee taken as a surplus
ImportSurplusOrEqual(amount, txFee) == amount >= txFee

\* line 375: the imported amount goes toward paying the fee
ImportShortfall(amount, txFee) == amount < txFee

\* line 385: the imported amount leaves a change
ImportSurplus(amount, txFee) == amount > txFee

\* the whole fee burned locally, the imported amount not counted
ImportBurnWholeFee(txFee, amount) == txFee

\* line 377: what the local spend has to burn
ImportBurn(txFee, amount) == txFee - amount

\* lines 362-415: the imported inputs are sorted and the fee is settled
ImportSettle ==
    /\ pc = "imported"
    /\ importedInputs' = SortTransferableInputs(importedInputs)
    /\ LET txFee == ctx.baseTxFee
       IN IF Len(importedInputs) = 0
          THEN /\ Return("errInsufficientFunds")
               /\ UNCHANGED <<req, i, spendVars>>
          ELSE IF ImportShortfall(importedAmount, txFee)
          THEN /\ req' = Request(AmountsOf(ImportBurn(txFee, importedAmount), 0),
                               NoAmounts)
               /\ amountsToBurn' = AmountsOf(ImportBurn(txFee, importedAmount), 0)
               /\ amountsToStake' = NoAmounts
               /\ pc' = "spend"
               /\ UNCHANGED <<utxos, i, changeOwner, inputs, changeOutputs,
                              stakeOutputs, err, tx>>
          ELSE IF ImportSurplus(importedAmount, txFee)
          THEN IF Peek(addrs) = {}
               THEN /\ Return("errNoChangeAddress")
                    /\ UNCHANGED <<req, i, spendVars>>
               ELSE \E addr \in Peek(addrs) :
                      LET owner == ChangeOwner(call.options,
                                               OutputOwners(1, <<addr>>, 0))
                          out == TransferableOutput(DJTXAssetID,
                                    TransferOutput(importedAmount - txFee,
                                        ImportedOutputOwners(call.to[1], owner)))
                      IN /\ changeOwner' = <<owner>>
                         /\ tx' = <<BuildTx(call, <<>>, <<out>>, <<>>,
                                            importedInputs')>>
                         /\ pc' = "done"
                         /\ err' = ""
                         /\ UNCHANGED <<req, utxos, i, amountsToBurn,
                                        amountsToStake, inputs, changeOutputs,
                                        stakeOutputs>>
          ELSE /\ tx' = <<BuildTx(call, <<>>, <<>>, <<>>, importedInputs')>>
               /\ pc' = "done"
               /\ err' = ""
               /\ UNCHANGED <<req, i, spendVars>>
    /\ UNCHANGED <<addrs, ctx, firstResult, subnetTx, errAsset, matched, call, srcUtxos, importedAmount>>

-----------------------------------------------------------------------------
(* authorizeSubnet, lines 681-709, and the assemblers that call it *)

\* what backend.GetTx may answer: an error, or a transaction
LookupError == [kind |-> "error"]
SubnetTx(unsignedTx) == [kind |-> "tx", unsignedTx |-> unsignedTx]

\* an UnsignedCreateSubnetTx with its Owner, and a transaction of another type
CreateSubnetTx(owner) == [type |-> "UnsignedCreateSubnetTx", owner |-> owner]
OtherTx == [type |-> "other"]

\* an Owner that is not a *secp256k1fx.OutputOwners
OtherOwner == [type |-> "other"]
Owner(owners) == [type |-> "secp256k1fx.OutputOwners", owners |-> owners]

WrappedLookupError == "failed to fetch subnet: " \o BackendError

\* the Matcher's verdict dropped: the indices returned, satisfied or not
authorizeSubnetUnchecked(b, resp, minIssuanceTime) ==
    IF resp.kind = "error" THEN [sigs |-> <<>>, err |-> WrappedLookupError]
    ELSE IF resp.unsignedTx.type # "UnsignedCreateSubnetTx"
    THEN [sigs |-> <<>>, err |-> "errWrongTxType"]
    ELSE IF resp.unsignedTx.owner.type # "secp256k1fx.OutputOwners"
    THEN [sigs |-> <<>>, err |-> "errUnknownOwnerType"]
    ELSE [sigs |-> match(b, resp.unsignedTx.owner.owners, minIssuanceTime).sigs,
          err |-> ""]

\* lines 681-709, resp being what b.backend.GetTx returned
authorizeSubnet(b, resp, minIssuanceTime) ==
    IF resp.kind = "error" THEN [sigs |-> <<>>, err |-> WrappedLookupError]
    ELSE IF resp.unsignedTx.type # "UnsignedCreateSubnetTx"
    THEN [sigs |-> <<>>, err |-> "errWrongTxType"]
    ELSE IF resp.unsignedTx.owner.type # "secp256k1fx.OutputOwners"
    THEN [sigs |-> <<>>, err |-> "errUnknownOwnerType"]
    ELSE LET m == match(b, resp.unsignedTx.owner.owners, minIssuanceTime)
         IN IF ~m.ok THEN [sigs |-> <<>>, err |-> "errInsufficientAuthorization"]
            ELSE [sigs |-> m.sigs, err |-> ""]

\* lines 179-188
NewAddSubnetValidatorTx(w) ==
    /\ pc = "idle"
    /\ \E ops \in w.options :
         CallSpend([NoCall EXCEPT !.op = "NewAddSubnetValidatorTx",
                                  !.options = ops],
                   AmountsOf(ctx.createSubnetTxFee, 0), NoAmounts)
    /\ UNCHANGED importVars

\* lines 241-254
NewCreateChainTx(w) ==
    /\ pc = "idle"
    /\ \E ops \in w.options :
         CallSpend([NoCall EXCEPT !.op = "NewCreateChainTx", !.options = ops],
                   AmountsOf(ctx.createSubnetTxFee, 0), NoAmounts)
    /\ UNCHANGED importVars

\* lines 193-208 and 259-279: the subnet is authorized and the transaction built;
\* answers is what the backend may return for the subnet's id
AuthorizeSubnet(answers) ==
    /\ pc = "authorize"
    /\ \E resp \in answers :
         LET auth == authorizeSubnet(addrs, resp, call.options.minIssuanceTime)
         IN /\ subnetTx' = <<resp>>
            /\ pc' = "done"
            /\ err' = auth.err
            /\ tx' = IF auth.err # "" THEN <<>>
                     ELSE <<[BuildTx(call, inputs, changeOutputs, <<>>, <<>>)
                               EXCEPT !.subnetAuth = <<auth.sigs>>]>>
    /\ UNCHANGED <<addrs, ctx, firstResult, errAsset, matched, call, req, i,
                   spendVars, importVars>>

\* the answers of the backend to GetTx
SubnetAnswers ==
    {LookupError, SubnetTx(OtherTx), SubnetTx(CreateSubnetTx(OtherOwner))}
    \cup {SubnetTx(CreateSubnetTx(Owner(o))) :
            o \in {OwnA, OwnB, OwnBorA, OwnAandB, OwnAnyone, OwnALater}}

SubnetUTXOs ==
    {u \in PChainUTXOs : u.utxoID \in {<<3, 0>>, <<1, 1>>, <<3, 1>>}}

SubnetWorld ==
    World(ControlledSets, {Context(2, 1)}, UTXOLists(SubnetUTXOs, MaxUTXOs), {},
          {Options(1, <<>>), Options(2, <<>>)}, {}, {}, {})

InitSubnet == InitIn(SubnetWorld)

NextSubnet ==
    \/ NewAddSubnetValidatorTx(SubnetWorld)
    \/ NewCreateChainTx(SubnetWorld)
    \/ SpendEnter(SubnetWorld)
    \/ Pass1Step
    \/ Pass2Step
    \/ SpendFinish
    \/ AuthorizeSubnet(SubnetAnswers)

SpecSubnet == InitSubnet /\ [][NextSubnet]_vars

-----------------------------------------------------------------------------
(* The specification *)

Init == InitIn(MainWorld)

Next ==
    \/ Spend(MainWorld)
    \/ NewAddValidatorTx(MainWorld)
    \/ NewAddDelegatorTx(MainWorld)
    \/ NewCreateSubnetTx(MainWorld)
    \/ NewExportTx(MainWorld)
    \/ NewImportTx(MainWorld)
    \/ ImportStep
    \/ ImportSettle
    \/ SpendEnter(MainWorld)
    \/ Pass1Step
    \/ Pass2Step
    \/ SpendFinish

Spec == Init /\ [][Next]_vars

-----------------------------------------------------------------------------
(* builder.match called on its own *)

\* longest address list of an owners structure given to match
MaxOwners == 3

\* largest lock time and issuance time given to match
MaxTime == 2

RECURSIVE AddrLists(_)
AddrLists(n) ==
    IF n = 0 THEN {<<>>}
    ELSE AddrLists(n - 1)
         \cup { Append(l, a) : l \in { x \in AddrLists(n - 1) : Len(x) = n - 1 },
                               a \in AddrUniverse }

\* thresholds may exceed the number of addresses
MatchOwners ==
    { OutputOwners(th, as, lt) :
        th \in 0..(MaxOwners + 1), as \in AddrLists(MaxOwners), lt \in 0..MaxTime }

InitMatch ==
    InitIn([MainWorld EXCEPT !.controlled = SUBSET AddrUniverse])

\* lines 711-725
Match ==
    /\ pc = "idle"
    /\ \E owners \in MatchOwners, minIssuanceTime \in 0..MaxTime :
         /\ call' = [NoCall EXCEPT !.op = "match",
                                   !.options = Options(minIssuanceTime, <<>>),
                                   !.owners = <<owners>>]
         /\ matched' = <<match(addrs, owners, minIssuanceTime)>>
    /\ pc' = "done"
    /\ UNCHANGED <<addrs, ctx, firstResult, subnetTx, errAsset, req, i, err, tx, spendVars, importVars>>

NextMatch == Match

SpecMatch == InitMatch /\ [][NextMatch]_vars

-----------------------------------------------------------------------------
(* The export and import scenarios: a base fee of 10, a wallet controlling A *)

Native515 == UTXO(1, 0, DJTXAssetID, TransferOutput(515, OwnA))
Native10 == UTXO(1, 1, DJTXAssetID, TransferOutput(10, OwnA))
Other500 == UTXO(2, 0, OtherAssetID, TransferOutput(500, OwnA))
Foreign4 == UTXO(3, 0, DJTXAssetID, TransferOutput(4, OwnA))
Foreign10 == UTXO(3, 1, DJTXAssetID, TransferOutput(10, OwnA))
Exported500 == ExportedOutput(OtherAssetID, 500)

ScenarioWorld ==
    World({{"A"}}, {Context(10, 10)},
          UTXOLists({Native515, Native10, Other500}, MaxUTXOs),
          UTXOLists({Foreign4, Foreign10}, MaxUTXOs),
          {Options(1, <<>>)}, {},
          {<<Exported500>>, <<ExportedOutput(DJTXAssetID, 500)>>},
          {OwnA, OwnC})

InitScenario == InitIn(ScenarioWorld)

NextScenario ==
    \/ NewExportTx(ScenarioWorld)
    \/ NewImportTx(ScenarioWorld)
    \/ ImportStep
    \/ ImportSettle
    \/ SpendEnter(ScenarioWorld)
    \/ Pass1Step
    \/ Pass2Step
    \/ SpendFinish

SpecScenario == InitScenario /\ [][NextScenario]_vars

-----------------------------------------------------------------------------
(* The same call made twice on one builder, the backend answering the same *)

TwiceUTXOs ==
    {u \in PChainUTXOs : u.utxoID \in {<<1, 1>>, <<1, 0>>, <<3, 1>>, <<4, 0>>}}

TwiceSourceUTXOs ==
    {u \in SourceUTXOs : u.utxoID \in {<<6, 0>>, <<6, 1>>, <<8, 1>>}}

TwiceWorld ==
    World({{}, {"A"}, {"A", "B"}}, {Context(2, 1)},
          UTXOLists(TwiceUTXOs, MaxUTXOs),
          UTXOLists(TwiceSourceUTXOs, MaxUTXOs),
          {Options(1, <<>>), Options(1, <<OwnB>>)}, SpendRequests,
          {<<ExportedOutput(OtherAssetID, 1)>>,
           <<ExportedOutput(DJTXAssetID, 1)>>},
          {OwnC})

InitTwice == InitIn(TwiceWorld)

\* the calls of the Builder interface
Assembler(w) ==
    \/ Spend(w)
    \/ NewAddValidatorTx(w)
    \/ NewAddDelegatorTx(w)
    \/ NewCreateSubnetTx(w)
    \/ NewExportTx(w)
    \/ NewImportTx(w)
    \/ NewAddSubnetValidatorTx(w)
    \/ NewCreateChainTx(w)

\* the first invocation
Invoke == firstResult = <<>> /\ Assembler(TwiceWorld)

\* the first invocation has returned; its result is kept and the builder is
\* ready for the next call
Again ==
    /\ pc = "done"
    /\ firstResult = <<>>
    /\ firstResult' = <<[call |-> call, req |-> req, srcUtxos |-> srcUtxos,
                        utxos |-> utxos, err |-> err, errAsset |-> errAsset,
                        tx |-> tx, inputs |-> inputs,
                        changeOutputs |-> changeOutputs,
                        stakeOutputs |-> stakeOutputs,
                        subnetTx |-> subnetTx]>>
    /\ pc' = "idle"
    /\ call' = NoCall
    /\ req' = Request(NoAmounts, NoAmounts)
    /\ srcUtxos' = <<>>
    /\ importedInputs' = <<>>
    /\ importedAmount' = 0
    /\ utxos' = <<>>
    /\ i' = 0
    /\ changeOwner' = <<>>
    /\ amountsToBurn' = NoAmounts
    /\ amountsToStake' = NoAmounts
    /\ inputs' = <<>>
    /\ changeOutputs' = <<>>
    /\ stakeOutputs' = <<>>
    /\ err' = ""
    /\ errAsset' = ""
    /\ subnetTx' = <<>>
    /\ tx' = <<>>
    /\ UNCHANGED <<addrs, ctx, matched>>

\* the arguments and the backend's answers of the first invocation
Replay ==
    LET f == firstResult[1]
    IN World({addrs}, {ctx}, {f.utxos}, {f.srcUtxos}, {f.call.options}, {f.req},
             {f.call.outputs}, {f.call.to[k] : k \in 1..Len(f.call.to)})

\* the backend failed the fetch of the source chain's UTXOs
SourceFetchFailed(f) ==
    /\ f.call.op = "NewImportTx"
    /\ f.err = BackendError
    /\ f.req = Request(NoAmounts, NoAmounts)

\* the backend failed the fetch of the P-chain's UTXOs
FetchFailed(f) == f.err = BackendError /\ ~SourceFetchFailed(f)

\* the second invocation: the same call, the backend answering as before
Reinvoke ==
    /\ firstResult # <<>>
    /\ Assembler(Replay)
    /\ call' = firstResult[1].call
    /\ (err' = BackendError) = SourceFetchFailed(firstResult[1])

Fetch ==
    IF firstResult = <<>> THEN SpendEnter(TwiceWorld)
    ELSE /\ SpendEnter(Replay)
         /\ (err' = BackendError) = FetchFailed(firstResult[1])

\* the subnet's transaction is looked up, the second time with the same answer
Lookup ==
    AuthorizeSubnet(IF firstResult = <<>> THEN SubnetAnswers
                    ELSE {firstResult[1].subnetTx[k] :
                            k \in 1..Len(firstResult[1].subnetTx)})

NextTwice ==
    \/ Invoke
    \/ Again
    \/ Reinvoke
    \/ Fetch
    \/ Lookup
    \/ Pass1Step
    \/ Pass2Step
    \/ SpendFinish
    \/ ImportStep
    \/ ImportSettle

SpecTwice == InitTwice /\ [][NextTwice]_vars

-----------------------------------------------------------------------------
(* Properties *)

\* the amount an input or an output carries
AmountIn(e) == IF "in" \in DOMAIN e THEN Amount(e.in) ELSE Amount(e.out)

\* the sum of the amounts of the inputs or outputs of a list that are of asset a
RECURSIVE Sum(_, _)
Sum(list, a) ==
    IF list = <<>> THEN 0
    ELSE (IF Head(list).asset = a THEN AmountIn(Head(list)) ELSE 0)
         + Sum(Tail(list), a)

Elements(list) == {list[k] : k \in 1..Len(list)}

Succeeded == pc = "done" /\ err = ""

\* the burn an assembler's arguments ask for, per asset
DeclaredBurn(a) ==
    CASE call.op = "spend" -> req.burn[a]
      [] call.op \in {"NewAddValidatorTx", "NewAddDelegatorTx"} -> 0
      [] call.op = "NewCreateSubnetTx" ->
            IF a = DJTXAssetID THEN ctx.createSubnetTxFee ELSE 0
      [] call.op = "NewExportTx" ->
            (IF a = DJTXAssetID THEN ctx.baseTxFee ELSE 0) + Sum(call.outputs, a)
      [] OTHER -> 0

\* C1: in every successful call and for every asset, the consumed inputs sum to
\* the change outputs plus the stake outputs plus the burn requested; the burn
\* of an export is the base fee plus the exported amounts; in an import the
\* imported inputs plus the local inputs sum to the outputs plus the base fee.
C1_Conservation ==
    Succeeded /\ call.op # "match" =>
        \A a \in AssetIDs :
            /\ Sum(inputs, a) =
                 Sum(changeOutputs, a) + Sum(stakeOutputs, a) + req.burn[a]
            /\ IF call.op = "NewImportTx"
               THEN Sum(tx[1].importedInputs, a) + Sum(tx[1].ins, a) =
                      Sum(tx[1].outs, a)
                      + (IF a = DJTXAssetID THEN ctx.baseTxFee ELSE 0)
               ELSE /\ Sum(tx[1].ins, a) =
                         Sum(tx[1].outs, a) + Sum(stakeOutputs, a)
                         + DeclaredBurn(a)
                    /\ tx[1].ins = inputs
                    /\ tx[1].outs = changeOutputs

\* a spend that burned and staked the native asset from two UTXOs, one of them
\* stake-locked, and returned change
C1_Witness ==
    /\ Succeeded
    /\ call.op = "spend"
    /\ req.burn[DJTXAssetID] > 0
    /\ req.stake[DJTXAssetID] > 0
    /\ Len(inputs) = 2
    /\ \E x \in Elements(inputs) : x.in.type = StakeableLockInT
    /\ changeOutputs # <<>>

\* C2: whenever spend returns successfully the stake outputs of every asset sum
\* to the stake requested (the validator weight for add-validator and
\* add-delegator) and nothing remains to burn or stake; a remainder after both
\* passes makes the call fail with errInsufficientFunds, returning nothing.
C2_Exact ==
    Succeeded /\ call.op # "match" =>
        /\ \A a \in AssetIDs :
             /\ Sum(stakeOutputs, a) = req.stake[a]
             /\ amountsToBurn[a] = 0
             /\ amountsToStake[a] = 0
        /\ call.op \in {"NewAddValidatorTx", "NewAddDelegatorTx"} =>
             /\ Sum(tx[1].stake, DJTXAssetID) = call.weight
             /\ Sum(tx[1].stake, OtherAssetID) = 0

C2_Remainder ==
    pc = "finish" /\ (\E a \in AssetIDs : amountsToBurn[a] + amountsToStake[a] # 0)
        => /\ pc' = "done"
           /\ err' = "errInsufficientFunds"
           /\ tx' = <<>>
           /\ inputs' = <<>> /\ changeOutputs' = <<>> /\ stakeOutputs' = <<>>

C2_ExactSatisfaction == [](C2_Exact) /\ [][C2_Remainder]_vars

\* an add-validator call whose weight is met by two UTXOs
C2_Witness ==
    /\ Succeeded
    /\ call.op = "NewAddValidatorTx"
    /\ call.weight = MaxWeight
    /\ Len(tx[1].stake) = 2

\* the UTXO of the fetched set an input consumes
Consumed(x) == CHOOSE u \in Elements(utxos) : u.utxoID = x.utxoID

StakeLocked(u) == u.out.type = StakeableLockOutT

\* stake-locked and the lock still active at the call's min issuance time
ActiveLock(u) ==
    StakeLocked(u) /\ u.out.locktime > call.options.minIssuanceTime

\* the asset, lock time and owners of a stake-locked UTXO or output
LockKey(e) == <<e.asset, e.out.locktime, e.out.out.owners>>

\* the sum of the amounts of the members of a set of UTXOs or outputs
RECURSIVE SumSet(_)
SumSet(set) ==
    IF set = {} THEN 0
    ELSE LET e == CHOOSE x \in set : TRUE
         IN Amount(e.out) + SumSet(set \ {e})

\* positions, since a list may hold two equal outputs
LockedOutputsAt(list, key) ==
    {k \in 1..Len(list) :
        list[k].out.type = StakeableLockOutT /\ LockKey(list[k]) = key}

RECURSIVE SumAt(_, _)
SumAt(list, positions) ==
    IF positions = {} THEN 0
    ELSE LET k == CHOOSE x \in positions : TRUE
         IN Amount(list[k].out) + SumAt(list, positions \ {k})

\* C3: in a successful spend a stake-locked UTXO consumed while its lock is
\* active gives a stake-locked input with its lock time and only stake-locked
\* outputs with that lock time and its owners; one consumed when matured gives a
\* plain input and only plain outputs; and every stake-locked UTXO is eligible
\* in exactly one pass, the boundary lock time = min issuance time included.
C3_LockPreservation ==
    /\ Succeeded /\ call.op # "match" =>
         LET outs == stakeOutputs \o changeOutputs
             consumed == {Consumed(x) : x \in Elements(inputs)}
             active == {u \in consumed : ActiveLock(u)}
         IN /\ \A x \in Elements(inputs) :
                 IF ActiveLock(Consumed(x))
                 THEN /\ x.in.type = StakeableLockInT
                      /\ x.in.locktime = Consumed(x).out.locktime
                      /\ x.in.in.amt = Consumed(x).out.out.amt
                 ELSE x.in.type = TransferInputT
            /\ \A o \in Elements(outs) :
                 IF o.out.type = StakeableLockOutT
                 THEN \E u \in active : LockKey(u) = LockKey(o)
                 ELSE o.out.type = TransferOutputT
            /\ \A u \in active :
                 SumAt(outs, LockedOutputsAt(outs, LockKey(u))) =
                   SumSet({v \in active : LockKey(v) = LockKey(u)})
            /\ \A a \in AssetIDs :
                 Sum(SelectSeq(outs, LAMBDA o : o.out.type = TransferOutputT), a)
                 + req.burn[a] =
                   SumSet({u \in consumed \ active : u.asset = a})
    /\ \A k \in 1..Len(utxos) :
         StakeLocked(utxos[k]) =>
           /\ StillLocked(utxos[k].out.locktime, call.options.minIssuanceTime)
                <=> ActiveLock(utxos[k])
           /\ CurrentlyLocked(utxos[k].out.locktime, call.options.minIssuanceTime)
                <=> ActiveLock(utxos[k])

\* a spend that consumed a still-locked UTXO with locked change and a
\* stake-locked UTXO whose lock time equals the min issuance time
C3_Witness ==
    /\ Succeeded
    /\ Len(inputs) = 2
    /\ \E x \in Elements(inputs) : ActiveLock(Consumed(x))
    /\ \E x \in Elements(inputs) :
         /\ StakeLocked(Consumed(x))
         /\ Consumed(x).out.locktime = call.options.minIssuanceTime
    /\ \E o \in Elements(changeOutputs) : o.out.type = StakeableLockOutT

\* the positions (counted from 1) of the listed addresses that are controlled
ControlledPositions(b, owners) ==
    {k \in 1..Len(owners.addrs) : owners.addrs[k] \in b}

\* C4: match returns unsatisfied when min issuance time < lock time; otherwise
\* it is satisfied exactly when at least threshold listed addresses are
\* controlled, and its index list is then the positions of the first threshold
\* controlled addresses, strictly ascending.
C4_MatchReference ==
    pc = "done" /\ call.op = "match" =>
        LET owners == call.owners[1]
            r == matched[1]
            cp == ControlledPositions(addrs, owners)
            first == {p \in cp :
                        Cardinality({q \in cp : q <= p}) <= owners.threshold}
        IN IF call.options.minIssuanceTime < owners.locktime
           THEN ~r.ok
           ELSE /\ r.ok <=> Cardinality(cp) >= owners.threshold
                /\ r.ok =>
                     /\ Len(r.sigs) = owners.threshold
                     /\ \A j \in 1..(Len(r.sigs) - 1) : r.sigs[j] < r.sigs[j + 1]
                     /\ {r.sigs[j] + 1 : j \in 1..Len(r.sigs)} = first

\* a threshold of 2 met by the first and the third listed address, the second
\* one not being controlled
C4_Witness ==
    /\ pc = "done"
    /\ call.op = "match"
    /\ call.owners[1].threshold = 2
    /\ matched[1].ok
    /\ matched[1].sigs = <<0, 2>>

\* a plain transfer output, or a stake-locked wrapper around one
Recognized(u) ==
    \/ u.out.type = TransferOutputT
    \/ StakeLocked(u) /\ u.out.out.type = TransferOutputT

\* the owners of a UTXO of a recognized shape
OwnersOf(u) == IF StakeLocked(u) THEN u.out.out.owners ELSE u.out.owners

\* the Matcher authorizes spending the UTXO at the call's min issuance time
Authorized(u) ==
    Recognized(u) /\ match(addrs, OwnersOf(u), call.options.minIssuanceTime).ok

\* U: the authorized plain or matured funds of asset a in the fetched set
UnlockedFunds(a) ==
    SumSet({u \in Elements(utxos) :
              u.asset = a /\ Authorized(u) /\ ~ActiveLock(u)})

\* L: the authorized still-locked funds of asset a in the fetched set
LockedFunds(a) ==
    SumSet({u \in Elements(utxos) :
              u.asset = a /\ Authorized(u) /\ ActiveLock(u)})

Max0(n) == IF n > 0 THEN n ELSE 0

\* spend fetched the UTXO set and returned
SpendReturned ==
    /\ pc = "done"
    /\ call.op \notin {"", "match"}
    /\ req # Request(NoAmounts, NoAmounts)
    /\ err # BackendError

\* C5 as claimed, for a wallet with a change address and UTXOs of recognized
\* shapes: unlocked plus matured funds below burn + stake for some asset make the
\* call fail with errInsufficientFunds.
C5_Original ==
    /\ SpendReturned
    /\ addrs # {}
    /\ \A u \in Elements(utxos) : Recognized(u)
    /\ \E a \in AssetIDs : UnlockedFunds(a) < req.burn[a] + req.stake[a]
    => err = "errInsufficientFunds" /\ tx = <<>>

\* C5, amended: still-locked funds count toward the stake.  If for some asset
\* the authorized unlocked plus matured funds are below burn + max(0, stake -
\* authorized still-locked funds), the call fails and returns nothing; the error
\* is errInsufficientFunds unless the controlled set is empty
\* (errNoChangeAddress) or a UTXO of unknown shape was met first.
C5_Exhaustion ==
    /\ SpendReturned
    /\ \E a \in AssetIDs :
         UnlockedFunds(a) < req.burn[a] + Max0(req.stake[a] - LockedFunds(a))
    => /\ tx = <<>>
       /\ inputs = <<>> /\ changeOutputs = <<>> /\ stakeOutputs = <<>>
       /\ IF addrs = {} THEN err = "errNoChangeAddress"
          ELSE IF \A u \in Elements(utxos) : Recognized(u)
          THEN err = "errInsufficientFunds"
          ELSE err \in {"errInsufficientFunds", "errUnknownOutputType"}

\* the funds of an asset would cover burn + stake, but part of them is still
\* locked and cannot be burned
C5_Witness ==
    /\ SpendReturned
    /\ err = "errInsufficientFunds"
    /\ \E a \in AssetIDs :
         /\ LockedFunds(a) > 0
         /\ req.burn[a] > 0
         /\ UnlockedFunds(a) < req.burn[a] + Max0(req.stake[a] - LockedFunds(a))
         /\ UnlockedFunds(a) + LockedFunds(a) >= req.burn[a] + req.stake[a]

\* a source-chain UTXO the import takes: native asset, plain transfer, owners
\* the Matcher is satisfied with
Eligible(u) ==
    /\ u.asset = DJTXAssetID
    /\ u.out.type = TransferOutputT
    /\ match(addrs, u.out.owners, call.options.minIssuanceTime).ok

\* S: the sum of the eligible source-chain UTXOs
ImportedSum == SumSet({u \in Elements(srcUtxos) : Eligible(u)})

NoRequest == Request(NoAmounts, NoAmounts)

\* NewImportTx fetched the source chain's UTXOs and returned
ImportReturned ==
    /\ pc = "done"
    /\ call.op = "NewImportTx"
    /\ ~(err = BackendError /\ req = NoRequest)

\* the owners a change output may go to: the override of the options, or a
\* threshold-1 owner over one controlled address
ResolvedChangeOwners ==
    IF call.options.changeOwner # <<>> THEN {call.options.changeOwner[1]}
    ELSE {OutputOwners(1, <<a>>, 0) : a \in addrs}

\* the import ran no local spend and returned exactly these outputs
ImportedWithout(outs) ==
    /\ err = ""
    /\ req = NoRequest
    /\ utxos = <<>>
    /\ tx[1].ins = <<>>
    /\ tx[1].outs \in outs

SurplusOutputs ==
    { <<TransferableOutput(DJTXAssetID,
            TransferOutput(ImportedSum - ctx.baseTxFee, owner))>> :
        owner \in ResolvedChangeOwners }

\* (a), (b) and (d) of C6
ImportOtherBranches ==
    LET S == ImportedSum
        F == ctx.baseTxFee
        none == \A u \in Elements(srcUtxos) : ~Eligible(u)
    IN /\ none => err = "errInsufficientFunds" /\ tx = <<>> /\ req = NoRequest
       /\ ~none /\ S < F => req = Request(AmountsOf(F - S, 0), NoAmounts)
       /\ ~none /\ S = F => ImportedWithout({<<>>})

C7_ImportedToTo ==
    ImportReturned /\ err = "" /\ ImportedSum > ctx.baseTxFee =>
        /\ Len(tx[1].outs) = 1
        /\ tx[1].outs[1].out.owners = call.to[1]

\* NewExportTx returned in the scenario of C8: 500 of X exported, one unlocked
\* native UTXO of 515 owned by A
ExportScenario ==
    /\ pc = "done"
    /\ call.op = "NewExportTx"
    /\ call.outputs = <<Exported500>>
    /\ utxos = <<Native515>>

NativeChange(amt, owner) ==
    TransferableOutput(DJTXAssetID, TransferOutput(amt, owner))

\* C8 as claimed: in the scenario NewExportTx succeeds with one input, a native
\* change output of 505 and the exported output; X is not required from the
\* wallet's UTXOs.
C8_Original ==
    ExportScenario =>
        /\ err = ""
        /\ Len(tx[1].ins) = 1
        /\ tx[1].outs = <<NativeChange(505, OwnA)>>
        /\ tx[1].exportedOutputs = <<Exported500>>

\* C8, amended: the exported amount of X is part of the burn and has to come
\* from the wallet's UTXOs of X.  With native UTXOs only the export of X fails
\* with errInsufficientFunds; with the native UTXO of 515 and an unlocked UTXO of
\* 500 X it succeeds with two inputs, one native change output of 505 and the
\* exported output.
C8_ExportNeedsAsset ==
    pc = "done" /\ call.op = "NewExportTx" /\ err # BackendError =>
        /\ req.burn = AmountsOf(ctx.baseTxFee + Sum(call.outputs, DJTXAssetID),
                                Sum(call.outputs, OtherAssetID))
        /\ (\E a \in AssetIDs : UnlockedFunds(a) < req.burn[a]) =>
             err = "errInsufficientFunds" /\ tx = <<>>
        /\ ExportScenario => err = "errInsufficientFunds" /\ tx = <<>>
        /\ call.outputs = <<Exported500>>
           /\ Elements(utxos) = {Native515, Other500} =>
             /\ err = ""
             /\ Len(tx[1].ins) = 2
             /\ tx[1].outs = <<NativeChange(505, OwnA)>>
             /\ tx[1].exportedOutputs = <<Exported500>>

\* the scenario of C8 has run
C8_Witness == ExportScenario /\ err = "errInsufficientFunds"

\* NewImportTx returned in the scenario of C9: one eligible source-chain UTXO of
\* 4, one local unlocked UTXO of 10 owned by A
ImportScenario ==
    /\ ImportReturned
    /\ srcUtxos = <<Foreign4>>
    /\ utxos = <<Native10>>

ImportScenarioInputs ==
    /\ err = ""
    /\ Len(tx[1].importedInputs) = 1
    /\ tx[1].importedInputs[1].utxoID = Foreign4.utxoID
    /\ Amount(tx[1].importedInputs[1].in) = 4
    /\ req.burn = AmountsOf(6, 0)
    /\ Len(tx[1].ins) = 1
    /\ tx[1].ins[1].utxoID = Native10.utxoID
    /\ Amount(tx[1].ins[1].in) = 10

\* C9 as claimed: the imported input covers 4, the local spend burns 6 from the
\* local UTXO, and the transaction has no change output.
C9_Original == ImportScenario => ImportScenarioInputs /\ tx[1].outs = <<>>

\* C9, amended: the local UTXO of 10 is consumed whole, 6 of it burned, and the
\* remaining 4 returned in one unlocked change output to the change owner.
C9_ImportShortfall ==
    /\ ImportScenario =>
         ImportScenarioInputs /\ tx[1].outs = <<NativeChange(4, OwnA)>>
    /\ ImportReturned /\ err = "" /\ ImportedSum < ctx.baseTxFee =>
         Sum(tx[1].outs, DJTXAssetID) =
           Sum(tx[1].ins, DJTXAssetID) - (ctx.baseTxFee - ImportedSum)

\* the scenario of C9 has run
C9_Witness == ImportScenario /\ err = "" /\ Len(tx[1].outs) = 1

\* the scan has begun: the UTXOs were fetched and the change owner resolved
Scanned == pc = "done" /\ changeOwner # <<>> /\ err # BackendError

\* C10 as claimed: a scanned UTXO set with a UTXO of an unrecognized shape makes
\* the call fail with errUnknownOutputType; it never returns a transaction.
C10_Original ==
    Scanned /\ (\E u \in Elements(utxos) : ~Recognized(u)) =>
        err = "errUnknownOutputType"

\* what a pass would spend of the UTXO: the wrapped output of a stake-locked
\* UTXO, the output itself otherwise
Payload(u) == IF StakeLocked(u) THEN u.out.out ELSE u.out

\* the pass at UTXO u has a use for it: pass 1 for a stake-locked UTXO whose lock
\* is active while stake of its asset is wanted, pass 2 for a plain or matured
\* UTXO while stake or burn of its asset is wanted
Wanted(u) ==
    LET min == call.options.minIssuanceTime
    IN \/ /\ pc = "pass1"
          /\ amountsToStake[u.asset] > 0
          /\ StakeLocked(u) /\ u.out.locktime > min
       \/ /\ pc = "pass2"
          /\ amountsToStake[u.asset] > 0 \/ amountsToBurn[u.asset] > 0
          /\ ~(StakeLocked(u) /\ u.out.locktime > min)

UnknownMet ==
    /\ pc \in {"pass1", "pass2"}
    /\ Wanted(utxos[i])
    /\ Payload(utxos[i]).type # TransferOutputT

C10_Step ==
    /\ UnknownMet =>
         /\ pc' = "done"
         /\ err' = "errUnknownOutputType"
         /\ tx' = <<>>
         /\ inputs' = <<>> /\ changeOutputs' = <<>> /\ stakeOutputs' = <<>>
    /\ pc \in {"pass1", "pass2"} /\ ~UnknownMet =>
         /\ err' = ""
         /\ pc' # "done"
         /\ (~Recognized(utxos[i]) => inputs' = inputs)

\* C10, amended: a UTXO of an unrecognized shape is fatal only where a pass has a
\* use for it.  Pass 1 fails on a stake-locked wrapper with an active lock and an
\* unknown payload while stake of its asset remains; pass 2 fails on a plain or
\* matured UTXO with an unknown payload while stake or burn of its asset remains.
\* The failure is immediate and returns nothing.  Any other UTXO of an
\* unrecognized shape is passed over without being consumed, and the scan goes
\* on.
C10_UnknownFatalWhenWanted == [][C10_Step]_vars

\* a call that wanted stake met a UTXO of an unrecognized shape and failed on it
C10_Witness ==
    /\ Scanned
    /\ \E u \in Elements(utxos) : ~Recognized(u)
    /\ err = "errUnknownOutputType"
    /\ req.stake[DJTXAssetID] > 0

-----------------------------------------------------------------------------
(* C11: the change address *)

\* the plain outputs of a list
PlainOutputs(list) == {o \in Elements(list) : o.out.type = TransferOutputT}

\* the scan is under way or over
InScan == pc \in {"pass1", "pass2", "finish"} \/ Scanned

\* a builder without addresses never reaches the scan and consumes nothing
C11_EmptySet ==
    addrs = {} =>
        /\ ~InScan
        /\ changeOwner = <<>>
        /\ inputs = <<>> /\ changeOutputs = <<>> /\ stakeOutputs = <<>>

\* spend, once the backend has answered, fails at once for a builder without
\* addresses
C11_EmptySetStep ==
    pc = "spend" /\ addrs = {} /\ err' # BackendError =>
        /\ pc' = "done"
        /\ err' = "errNoChangeAddress"
        /\ tx' = <<>>

\* the change owner of a scan: the override of the options, or a threshold-1
\* owner over one controlled address; every plain output of the scan is its
\* own
C11_Owner ==
    InScan =>
        /\ Len(changeOwner) = 1
        /\ changeOwner[1] \in ResolvedChangeOwners
        /\ \A o \in PlainOutputs(changeOutputs) \cup PlainOutputs(stakeOutputs) :
             o.out.owners = changeOwner[1]

\* the change owner is chosen once: no step of the scan changes it
C11_OwnerStep ==
    pc \in {"pass1", "pass2", "finish"} => changeOwner' = changeOwner

\* C11: with an empty controlled set every call of spend fails with
\* errNoChangeAddress before a UTXO is examined or consumed, whatever UTXOs the
\* backend returned and whatever the request and the options; with a non-empty
\* set the default change owner is a threshold-1 owner over one controlled
\* address, chosen once per call and given to every unlocked output unless the
\* options override it.
C11_NoChangeAddress ==
    /\ [](C11_EmptySet /\ C11_Owner)
    /\ [][C11_EmptySetStep /\ C11_OwnerStep]_vars

\* a builder without addresses was given UTXOs and a change-owner override, and
\* spend failed with errNoChangeAddress
C11_Witness ==
    /\ pc = "done"
    /\ addrs = {}
    /\ err = "errNoChangeAddress"
    /\ call.op \in {"spend", "NewAddValidatorTx", "NewExportTx"}
    /\ utxos # <<>>
    /\ call.options.changeOwner # <<>>

-----------------------------------------------------------------------------
(* C12: canonical ordering *)

\* UTXO ids in ascending order: by source tx id, then by output index
UTXOIDBefore(x, y) == x[1] < y[1] \/ (x[1] = y[1] /\ x[2] < y[2])

InputsSorted(ins) ==
    \A k \in 1..(Len(ins) - 1) : UTXOIDBefore(ins[k].utxoID, ins[k + 1].utxoID)

OutputsSorted(outs) ==
    \A k \in 1..(Len(outs) - 1) : ~BytesLess(Marshal(outs[k + 1]), Marshal(outs[k]))

\* C12: whatever order the backend returned the UTXOs in, a successful spend
\* returns its inputs in ascending order of UTXO id and its change outputs and
\* stake outputs each in the order of their serializations; the imported inputs
\* of an import transaction are in ascending order of UTXO id.
C12_CanonicalOrder ==
    Succeeded /\ call.op # "match" =>
        /\ InputsSorted(inputs)
        /\ OutputsSorted(changeOutputs)
        /\ OutputsSorted(stakeOutputs)
        /\ InputsSorted(tx[1].ins)
        /\ OutputsSorted(tx[1].outs)
        /\ OutputsSorted(tx[1].stake)
        /\ InputsSorted(tx[1].importedInputs)

\* spend succeeded with two inputs that it returns in the opposite order of the
\* backend's, and with two change outputs
C12_Witness ==
    /\ Succeeded
    /\ Len(utxos) = 2
    /\ Len(inputs) = 2
    /\ inputs[1].utxoID = utxos[2].utxoID
    /\ inputs[2].utxoID = utxos[1].utxoID
    /\ Len(changeOutputs) = 2

-----------------------------------------------------------------------------
(* C13: determinism *)

\* the second of two identical invocations has returned
BothReturned == firstResult # <<>> /\ pc = "done"

\* the two invocations returned the same transaction, or errors of the same kind
SameResult ==
    /\ err = firstResult[1].err
    /\ tx = firstResult[1].tx
    /\ inputs = firstResult[1].inputs
    /\ changeOutputs = firstResult[1].changeOutputs
    /\ stakeOutputs = firstResult[1].stakeOutputs

-----------------------------------------------------------------------------
(* C14: subnet authorization *)

\* authorizeSubnet has returned to the assembler that called it
Authorized14 == pc = "done" /\ call.op \in SubnetCalls /\ subnetTx # <<>>

\* C14: authorizeSubnet fails with the wrapped lookup error when the backend
\* cannot return the subnet's transaction, else with errWrongTxType when that is
\* no subnet-creation transaction, else with errUnknownOwnerType when its owner
\* is no OutputOwners, else with errInsufficientAuthorization exactly when the
\* Matcher is unsatisfied on the owners at the call's min issuance time; else it
\* returns the Matcher's signer indices.  The assembler returns no transaction
\* when it fails.
C14_SubnetAuthorization ==
    Authorized14 =>
        LET resp == subnetTx[1]
            min == call.options.minIssuanceTime
        IN /\ IF resp = LookupError THEN err = WrappedLookupError
              ELSE IF resp.unsignedTx = OtherTx THEN err = "errWrongTxType"
              ELSE IF resp.unsignedTx.owner = OtherOwner
              THEN err = "errUnknownOwnerType"
              ELSE LET owners == resp.unsignedTx.owner.owners
                       positions == ControlledPositions(addrs, owners)
                       satisfied == /\ owners.locktime <= min
                                    /\ Cardinality(positions) >= owners.threshold
                   IN /\ (err = "errInsufficientAuthorization") = ~satisfied
                      /\ satisfied =>
                           /\ err = ""
                           /\ tx[1].subnetAuth =
                                <<match(addrs, owners, min).sigs>>
           /\ err # "" => tx = <<>>
           /\ err = "" =>
                /\ tx[1].ins = inputs
                /\ tx[1].outs = changeOutputs

\* a subnet owned by B or A was authorized by a builder that controls A alone,
\* with the index of A
C14_Witness ==
    /\ Authorized14
    /\ err = ""
    /\ addrs = {"A"}
    /\ subnetTx[1] = SubnetTx(CreateSubnetTx(Owner(OwnBorA)))
    /\ tx[1].subnetAuth = <<<<1>>>>
    /\ Len(tx[1].ins) > 0

-----------------------------------------------------------------------------
(* C15: when the greedy planner succeeds *)

\* spend was called with a UTXO set of recognized shapes and has returned
SpendRan ==
    /\ pc = "done"
    /\ call.op \notin {"", "match", "NewImportTx"} \/ req # NoRequest
    /\ err \notin {BackendError, "overflow"}
    /\ \A u \in Elements(utxos) : Recognized(u)

\* U >= burn + max(0, stake - L) for every asset
Covered ==
    \A a \in AssetIDs :
        UnlockedFunds(a) >= req.burn[a] + Max0(req.stake[a] - LockedFunds(a))

PlainInputs == SelectSeq(inputs, LAMBDA x : x.in.type = TransferInputT)

PlainOutputsOf(list) == SelectSeq(list, LAMBDA o : o.out.type = TransferOutputT)

\* only UTXOs the Matcher authorizes are consumed, a failure is a lack of funds,
\* and the burn is paid by plain and matured UTXOs alone
GreedyScan ==
    /\ \A x \in Elements(inputs) : Authorized(Consumed(x))
    /\ err \in {"", "errInsufficientFunds"}
    /\ err = "" =>
         \A a \in AssetIDs :
             Sum(PlainInputs, a) =
               req.burn[a] + Sum(PlainOutputsOf(changeOutputs), a)
                           + Sum(PlainOutputsOf(stakeOutputs), a)

\* C15 as claimed: over a UTXO set of recognized shapes spend succeeds exactly
\* when U >= burn + max(0, stake - L) for every asset, in whatever order the
\* UTXOs come; rejected UTXOs are skipped without error and never consumed, and
\* still-locked funds pay no burn.
C15_Original == SpendRan => (err = "") = Covered /\ GreedyScan

\* C15, amended: the criterion is that of a builder that controls at least one
\* address; one that controls none fails with errNoChangeAddress whatever the
\* funds are.
C15_Completeness ==
    SpendRan =>
        IF addrs = {} THEN err = "errNoChangeAddress" /\ inputs = <<>>
        ELSE (err = "") = Covered /\ GreedyScan

\* a stake met by a still-locked UTXO and, for the rest, by an unlocked one that
\* also pays the burn, with nothing to spare
C15_Witness ==
    /\ SpendRan
    /\ err = ""
    /\ \E a \in AssetIDs :
         /\ LockedFunds(a) > 0
         /\ req.stake[a] > LockedFunds(a)
         /\ req.burn[a] > 0
         /\ UnlockedFunds(a) = req.burn[a] + req.stake[a] - LockedFunds(a)

-----------------------------------------------------------------------------
(* C16: locked funds are staked first *)

\* the ids of the UTXOs the inputs consume
ConsumedIDs == {x.utxoID : x \in Elements(inputs)}

\* the authorized still-locked UTXOs of asset a
LockedUTXOs(a) ==
    {u \in Elements(utxos) : u.asset = a /\ Authorized(u) /\ ActiveLock(u)}

\* in a successful result the plain stake outputs of an asset hold what the
\* authorized still-locked UTXOs could not give, and hold something only if all
\* of these were consumed
C16_Result ==
    Succeeded /\ call.op \notin {"", "match"} =>
        \A a \in AssetIDs :
            LET plain == Sum(PlainOutputsOf(stakeOutputs), a)
            IN /\ plain = Max0(req.stake[a] - LockedFunds(a))
               /\ plain > 0 =>
                    \A u \in LockedUTXOs(a) : u.utxoID \in ConsumedIDs

\* no still-locked UTXO is consumed once the stake requirement of its asset is
\* zero, in either pass
C16_Step ==
    /\ pc \in {"pass1", "pass2"}
    /\ StakeLocked(utxos[i])
    /\ utxos[i].out.locktime > call.options.minIssuanceTime
    /\ amountsToStake[utxos[i].asset] = 0
    => inputs' = inputs

\* C16: in every successful spend and for every asset, the amount in plain stake
\* outputs is max(0, requested stake - authorized still-locked funds): unlocked
\* UTXOs are staked only after every authorized still-locked UTXO of the asset
\* was consumed, and no still-locked UTXO is consumed once the stake requirement
\* of its asset is zero.
C16_LockedFirst == [](C16_Result) /\ [][C16_Step]_vars

\* a stake of which one part is met by a still-locked UTXO and the rest by an
\* unlocked one that comes first in the backend's order
C16_Witness ==
    /\ Succeeded
    /\ Len(utxos) = 2
    /\ ~StakeLocked(utxos[1])
    /\ ActiveLock(utxos[2])
    /\ Len(stakeOutputs) = 2
    /\ \E a \in AssetIDs :
         /\ LockedFunds(a) > 0
         /\ Sum(PlainOutputsOf(stakeOutputs), a) > 0

====
